---- MODULE Spec2Model ----
(***************************************************************************)
(* Model of the array-backed Merkle tree of src/src/main.rs: the           *)
(* domain-separated hashing, build_upper_level, the backward placement of  *)
(* rows by build_internal_nodes, the construction entry points and verify. *)
(*                                                                         *)
(* Byte strings are sequences of symbols.  A symbol is a pair              *)
(* <<code, parts>>: a raw byte b is <<b, <<>>>>, and the output of the     *)
(* digest over the absorbed byte string buf is the one symbol              *)
(* <<-1, buf>>, standing for the output_bits/8 bytes of an ideal           *)
(* (collision-free) hash primitive.  The empty Vec is <<>>.                *)
(* Vectors are indexed from 0 as in the source, through At and Slice.      *)
(***************************************************************************)
EXTENDS Integers, Sequences, FiniteSets

\* ---------------------------------------------------------------- bounds
MaxLeaves == 4
MaxSame == 10
MaxGivenLeaves == 2
MaxCalls == 2

\* ------------------------------------------------------------- constants
LEAF_SIG == 0
INTERNAL_SIG == 1

\* ------------------------------------------------------------ byte values
Byte(b) == <<b, <<>>>>

Block1 == <<Byte(72), Byte(105)>>
Block2 == <<Byte(66)>>
Block3 == <<Byte(72)>>

Blocks == {Block1, Block2}
VerifyValues == {Block1, Block2, Block3}

At(s, i) == s[i + 1]
Slice(s, a, b) == SubSeq(s, a + 1, b)

RECURSIVE Repeat(_, _)
Repeat(x, n) == IF n = 0 THEN <<>> ELSE Append(Repeat(x, n - 1), x)

RECURSIVE SeqsUpTo(_, _)
SeqsUpTo(S, n) ==
    IF n = 0 THEN {<<>>}
    ELSE LET shorter == SeqsUpTo(S, n - 1)
         IN shorter \cup {Append(s, x) : s \in {t \in shorter : Len(t) = n - 1}, x \in S}

\* the value slices handed to build / build_with_hasher
ValueInputs == SeqsUpTo(Blocks, MaxLeaves) \cup {Repeat(Block1, n) : n \in 0..MaxSame}

\* ---------------------------------------------------------- hash primitive
\* The state of a Digest is the byte string absorbed since the last reset.
DefaultHasher == <<>>
UsedHasher == <<Byte(9)>>
Hashers == {DefaultHasher, UsedHasher}

reset(hasher) == <<>>
input(hasher, d) == hasher \o d
result(hasher) == <<(<<0 - 1, hasher>>)>>

\* ---------------------------------------------------------- DomainHasher
hash_leaf_noreset(value, hasher) ==
    LET h2 == input(hasher, <<Byte(LEAF_SIG)>>)
        h3 == input(h2, value)
    IN [hash |-> result(h3), hasher |-> h3]

hash_leaf(value, hasher) ==
    LET h1 == reset(hasher)
        h2 == input(h1, <<Byte(LEAF_SIG)>>)
        h3 == input(h2, value)
    IN [hash |-> result(h3), hasher |-> h3]

\* right is an Option<&Hash>: <<>> is None, <<r>> is Some(r)
hash_internal_node_noreset(left, right, hasher) ==
    LET h2 == input(hasher, <<Byte(INTERNAL_SIG)>>)
        h3 == input(h2, left)
        h4 == IF right # <<>> THEN input(h3, right[1]) ELSE input(h3, left)
    IN [hash |-> result(h4), hasher |-> h4]

hash_internal_node_single(left, right, hasher) ==
    LET h1 == reset(hasher)
        h2 == input(h1, <<Byte(INTERNAL_SIG)>>)
        h3 == input(h2, left)
        h4 == IF right # <<>> THEN input(h3, right[1]) ELSE h3
    IN [hash |-> result(h4), hasher |-> h4]

hash_internal_node(left, right, hasher) ==
    LET h1 == reset(hasher)
        h2 == input(h1, <<Byte(INTERNAL_SIG)>>)
        h3 == input(h2, left)
        h4 == IF right # <<>> THEN input(h3, right[1]) ELSE input(h3, left)
    IN [hash |-> result(h4), hasher |-> h4]

\* ------------------------------------------------------------ LevelBuilder
\* a loop that pairs nodes only while two are left
RECURSIVE build_upper_level_loop_pairs(_, _, _, _)
build_upper_level_loop_pairs(nodes, i, row, hasher) ==
    IF i + 1 < Len(nodes)
    THEN LET r == hash_internal_node(At(nodes, i), <<At(nodes, i + 1)>>, hasher)
         IN build_upper_level_loop_pairs(nodes, i + 2, Append(row, r.hash), r.hasher)
    ELSE [row |-> row, hasher |-> hasher]

\* the while loop of build_upper_level, from index i with the row so far
RECURSIVE build_upper_level_loop(_, _, _, _)
build_upper_level_loop(nodes, i, row, hasher) ==
    IF i < Len(nodes)
    THEN IF i + 1 < Len(nodes)
         THEN LET r == hash_internal_node(At(nodes, i), <<At(nodes, i + 1)>>, hasher)
              IN build_upper_level_loop(nodes, i + 2, Append(row, r.hash), r.hasher)
         ELSE LET r == hash_internal_node(At(nodes, i), <<>>, hasher)
              IN build_upper_level_loop(nodes, i + 1, Append(row, r.hash), r.hasher)
    ELSE [row |-> row, hasher |-> hasher]

\* a row padded whenever its length is odd, a single parent included
build_upper_level_pad_always(nodes, hasher) ==
    LET l == build_upper_level_loop(nodes, 0, <<>>, hasher)
        row == l.row
    IN IF Len(row) % 2 # 0
       THEN [row |-> Append(row, row[Len(row)]), hasher |-> l.hasher]
       ELSE [row |-> row, hasher |-> l.hasher]

build_upper_level(nodes, hasher) ==
    LET l == build_upper_level_loop(nodes, 0, <<>>, hasher)
        row == l.row
    IN IF Len(row) > 1 /\ Len(row) % 2 # 0
       THEN [row |-> Append(row, row[Len(row)]), hasher |-> l.hasher]
       ELSE [row |-> row, hasher |-> l.hasher]

\* ------------------------------------------------------------ TreeAssembler
\* smallest power of two >= n; 1 for n = 0 and n = 1
RECURSIVE next_power_of_2_from(_, _)
next_power_of_2_from(p, n) == IF p >= n THEN p ELSE next_power_of_2_from(2 * p, n)

next_power_of_2(n) == next_power_of_2_from(1, n)

calculate_internal_nodes_count_classic(count_leaves) == count_leaves - 1

calculate_internal_nodes_count(count_leaves) == next_power_of_2(count_leaves) - 1

\* nodes[start..end].clone_from_slice(src): the slice must lie inside nodes
\* and have the length of src, else the call panics
SliceFits(nodes, start, end, src) ==
    /\ 0 <= start
    /\ start <= end
    /\ end <= Len(nodes)
    /\ end - start = Len(src)

clone_from_slice(nodes, start, end, src) ==
    [i \in 1..Len(nodes) |-> IF start < i /\ i <= end THEN src[i - start] ELSE nodes[i]]

NoFailure == "none"
InsufficientLeaves == "InsufficientLeaves"
PositionOutOfRange == "PositionOutOfRange"
\* an index or slice out of range, or an unsigned subtraction below 0 (which
\* panics at once with overflow checks, and otherwise wraps to an index far
\* beyond the vector so that the slice that follows panics)
IndexPanic == "IndexPanic"

\* the locals of build_internal_nodes together with its two &mut arguments;
\* windows lists the ranges [start, end) written so far, in order
Assembly(nodes, parents, start, end, hasher, failure, windows) ==
    [nodes |-> nodes, parents |-> parents, upper_level_start |-> start,
     upper_level_end |-> end, hasher |-> hasher, failure |-> failure,
     windows |-> windows]

\* build_internal_nodes up to the loop: the first parent row and its window
build_internal_nodes_first(nodes, count_internal_nodes, hasher) ==
    IF count_internal_nodes > Len(nodes)
    THEN Assembly(nodes, <<>>, 0, 0, hasher, IndexPanic, <<>>)
    ELSE
    LET up == build_upper_level(Slice(nodes, count_internal_nodes, Len(nodes)), hasher)
        parents == up.row
        upper_level_start == count_internal_nodes - Len(parents)
        upper_level_end == upper_level_start + Len(parents)
    IN IF SliceFits(nodes, upper_level_start, upper_level_end, parents)
       THEN Assembly(clone_from_slice(nodes, upper_level_start, upper_level_end, parents),
                     parents, upper_level_start, upper_level_end, up.hasher, NoFailure,
                     <<(<<upper_level_start, upper_level_end>>)>>)
       ELSE Assembly(nodes, parents, 0, 0, up.hasher, IndexPanic, <<>>)

\* an iteration that places its row one slot too low
build_internal_nodes_step_gap(a) ==
    LET up == build_upper_level(a.parents, a.hasher)
        parents == up.row
        upper_level_start == a.upper_level_start - Len(parents) - 1
        upper_level_end == upper_level_start + Len(parents)
    IN IF SliceFits(a.nodes, upper_level_start, upper_level_end, parents)
       THEN Assembly(clone_from_slice(a.nodes, upper_level_start, upper_level_end, parents),
                     parents, upper_level_start, upper_level_end, up.hasher, NoFailure,
                     Append(a.windows, <<upper_level_start, upper_level_end>>))
       ELSE Assembly(a.nodes, parents, a.upper_level_start, a.upper_level_end,
                     up.hasher, IndexPanic, a.windows)

\* one iteration of the while loop of build_internal_nodes
build_internal_nodes_step(a) ==
    LET up == build_upper_level(a.parents, a.hasher)
        parents == up.row
        upper_level_start == a.upper_level_start - Len(parents)
        upper_level_end == upper_level_start + Len(parents)
    IN IF SliceFits(a.nodes, upper_level_start, upper_level_end, parents)
       THEN Assembly(clone_from_slice(a.nodes, upper_level_start, upper_level_end, parents),
                     parents, upper_level_start, upper_level_end, up.hasher, NoFailure,
                     Append(a.windows, <<upper_level_start, upper_level_end>>))
       ELSE Assembly(a.nodes, parents, a.upper_level_start, a.upper_level_end,
                     up.hasher, IndexPanic, a.windows)

\* the statement after the loop: nodes[0] = parents.remove(0)
build_internal_nodes_finish(a) ==
    IF Len(a.parents) = 0 \/ Len(a.nodes) = 0
    THEN [a EXCEPT !.failure = IndexPanic]
    ELSE [a EXCEPT !.nodes = [a.nodes EXCEPT ![1] = a.parents[1]],
                   !.parents = Tail(a.parents)]

\* _build_from_leaves_with_hasher up to the loop of build_internal_nodes
build_from_leaves_with_hasher_inner(leaves, hasher) ==
    LET count_leaves == Len(leaves)
        count_internal_nodes == calculate_internal_nodes_count(count_leaves)
        empty == [i \in 1..(count_internal_nodes + count_leaves) |-> <<>>]
        nodes == clone_from_slice(empty, count_internal_nodes, Len(empty), leaves)
    IN [count_leaves |-> count_leaves,
        count_internal_nodes |-> count_internal_nodes,
        assembly |-> build_internal_nodes_first(nodes, count_internal_nodes, hasher)]

\* ------------------------------------------------- construction entry points
\* values.iter().map(|v| hash_leaf(v, &mut hasher)).collect()
RECURSIVE hash_leaves(_, _)
hash_leaves(values, hasher) ==
    IF values = <<>>
    THEN [leaves |-> <<>>, hasher |-> hasher]
    ELSE LET r == hash_leaf(values[1], hasher)
             rest == hash_leaves(Tail(values), r.hasher)
         IN [leaves |-> <<r.hash>> \o rest.leaves, hasher |-> rest.hasher]

\* what a construction call has done when it panics on its assertion
Rejected(hasher) ==
    [count_leaves |-> 0, count_internal_nodes |-> 0, leaves_hashed |-> 0,
     assembly |-> Assembly(<<>>, <<>>, 0, 0, hasher, InsufficientLeaves, <<>>)]

Started(inner, leaves_hashed) ==
    [count_leaves |-> inner.count_leaves,
     count_internal_nodes |-> inner.count_internal_nodes,
     leaves_hashed |-> leaves_hashed,
     assembly |-> inner.assembly]

build_with_hasher_nonempty(values, hasher) ==
    LET count_leaves == Len(values)
    IN IF ~(count_leaves > 0)
       THEN Rejected(hasher)
       ELSE LET l == hash_leaves(values, hasher)
            IN Started(build_from_leaves_with_hasher_inner(l.leaves, l.hasher), Len(values))

build_with_hasher(values, hasher) ==
    LET count_leaves == Len(values)
    IN IF ~(count_leaves > 1)
       THEN Rejected(hasher)
       ELSE LET l == hash_leaves(values, hasher)
            IN Started(build_from_leaves_with_hasher_inner(l.leaves, l.hasher), Len(values))

build(values) == build_with_hasher(values, DefaultHasher)

build_from_leaves_with_hasher(leaves, hasher) ==
    LET count_leaves == Len(leaves)
    IN IF ~(count_leaves > 1)
       THEN Rejected(hasher)
       ELSE Started(build_from_leaves_with_hasher_inner(leaves, hasher), 0)

build_from_leaves(leaves) == build_from_leaves_with_hasher(leaves, DefaultHasher)

\* ------------------------------------------------ accessors and verification
\* self is [hasher, nodes, count_internal_nodes, count_leaves]
root_hash(self) == At(self.nodes, 0)

HexDigit(d) == IF d < 10 THEN 48 + d ELSE 87 + d

\* lower-case hexadecimal: two digits for a raw byte; the digits of a digest
\* symbol are the one symbol <<-2, buf>>
RECURSIVE to_hex(_)
to_hex(bytes) ==
    IF bytes = <<>> THEN <<>>
    ELSE LET b == bytes[1]
         IN (IF b[1] >= 0
             THEN <<Byte(HexDigit(b[1] \div 16)), Byte(HexDigit(b[1] % 16))>>
             ELSE <<(<<0 - 2, b[2]>>)>>) \o to_hex(Tail(bytes))

root_hash_str(self) == to_hex(At(self.nodes, 0))

leaves(self) == Slice(self.nodes, self.count_internal_nodes, Len(self.nodes))

\* the outcome of verify: the tree afterwards, the panic if any, the boolean
\* returned, the node indices read and the number of hash_leaf calls
Verified(self, failure, value, reads, hashed) ==
    [self |-> self, failure |-> failure, value |-> value, reads |-> reads,
     hashed |-> hashed]

verify_inclusive(self, position, value) ==
    IF ~(position <= self.count_leaves)
    THEN Verified(self, PositionOutOfRange, FALSE, {}, 0)
    ELSE LET index == self.count_internal_nodes + position
         IN IF ~(index < Len(self.nodes))
            THEN Verified(self, IndexPanic, FALSE, {index}, 0)
            ELSE LET h == hash_leaf(value, self.hasher)
                 IN Verified([self EXCEPT !.hasher = h.hasher], NoFailure,
                             At(self.nodes, index) = h.hash, {index}, 1)

verify_storing(self, position, value) ==
    IF ~(position < self.count_leaves)
    THEN Verified(self, PositionOutOfRange, FALSE, {}, 0)
    ELSE LET index == self.count_internal_nodes + position
         IN IF ~(index < Len(self.nodes))
            THEN Verified(self, IndexPanic, FALSE, {index}, 0)
            ELSE LET h == hash_leaf(value, self.hasher)
                 IN Verified([self EXCEPT !.hasher = h.hasher,
                                          !.nodes = [self.nodes EXCEPT ![index + 1] = h.hash]],
                             NoFailure, TRUE, {index}, 1)

verify(self, position, value) ==
    IF ~(position < self.count_leaves)
    THEN Verified(self, PositionOutOfRange, FALSE, {}, 0)
    ELSE LET index == self.count_internal_nodes + position
         IN IF ~(index < Len(self.nodes))
            THEN Verified(self, IndexPanic, FALSE, {index}, 0)
            ELSE LET h == hash_leaf(value, self.hasher)
                 IN Verified([self EXCEPT !.hasher = h.hasher], NoFailure,
                             At(self.nodes, index) = h.hash, {index}, 1)

\* ------------------------------------------------------------------ state
VARIABLES
    phase,                 \* "none", "assembling", "built" or "panicked"
    hasher,                \* MerkleTree.hasher
    nodes,                 \* MerkleTree.nodes
    count_internal_nodes,  \* MerkleTree.count_internal_nodes
    count_leaves,          \* MerkleTree.count_leaves
    parents,               \* build_internal_nodes: the current row
    upper_level_start,     \* build_internal_nodes: start of the last window
    upper_level_end,       \* build_internal_nodes: end of the last window
    windows,               \* the windows written by build_internal_nodes, in order
    failure,               \* the panic that ended the last call, or NoFailure
    origin,                \* the construction call that made the tree
    call,                  \* the last call made on the built tree
    ret,                   \* what the last call returned
    reads,                 \* the node indices the last call on the tree read
    hashed,                \* the hash_leaf calls the last call made
    calls,                 \* the number of calls made on the built tree
    existing_tree          \* a tree built earlier and kept by the caller

vars == <<phase, hasher, nodes, count_internal_nodes, count_leaves, parents,
          upper_level_start, upper_level_end, windows, failure, origin, call,
          ret, reads, hashed, calls, existing_tree>>

Self ==
    [hasher |-> hasher, nodes |-> nodes,
     count_internal_nodes |-> count_internal_nodes, count_leaves |-> count_leaves]

CurrentAssembly ==
    Assembly(nodes, parents, upper_level_start, upper_level_end, hasher, failure, windows)

NoSelf ==
    [hasher |-> DefaultHasher, nodes |-> <<>>, count_internal_nodes |-> 0,
     count_leaves |-> 0]

Origin(op, values, leaf_hashes) == [op |-> op, values |-> values, leaves |-> leaf_hashes]
NoOrigin == Origin("none", <<>>, <<>>)

Call(op, position, value) == [op |-> op, position |-> position, value |-> value]
NoCall == Call("none", 0, <<>>)

Ret(kind, flag, bytes, hashes) ==
    [kind |-> kind, flag |-> flag, bytes |-> bytes, hashes |-> hashes]
NoRet == Ret("none", FALSE, <<>>, <<>>)
Panicked == Ret("panic", FALSE, <<>>, <<>>)

NoTree == [present |-> FALSE, self |-> NoSelf, origin |-> NoOrigin]

Init ==
    /\ phase = "none"
    /\ hasher = DefaultHasher
    /\ nodes = <<>>
    /\ count_internal_nodes = 0
    /\ count_leaves = 0
    /\ parents = <<>>
    /\ upper_level_start = 0
    /\ upper_level_end = 0
    /\ windows = <<>>
    /\ failure = NoFailure
    /\ origin = NoOrigin
    /\ call = NoCall
    /\ ret = NoRet
    /\ reads = {}
    /\ hashed = 0
    /\ calls = 0
    /\ existing_tree = NoTree

\* the leaf-hash slices handed to build_from_leaves: short slices of leaf
\* hashes computed elsewhere, and the leaves() of the tree kept earlier
LeafInputs ==
    {hash_leaves(v, DefaultHasher).leaves : v \in SeqsUpTo(Blocks, MaxGivenLeaves)}
    \cup (IF existing_tree.present THEN {leaves(existing_tree.self)} ELSE {})

\* the state a construction call leaves when it reaches the loop of
\* build_internal_nodes (c.assembly.failure = NoFailure) or panics before it
Construct(c, o) ==
    /\ phase' = IF c.assembly.failure = NoFailure THEN "assembling" ELSE "panicked"
    /\ hasher' = c.assembly.hasher
    /\ nodes' = c.assembly.nodes
    /\ count_internal_nodes' = c.count_internal_nodes
    /\ count_leaves' = c.count_leaves
    /\ parents' = c.assembly.parents
    /\ upper_level_start' = c.assembly.upper_level_start
    /\ upper_level_end' = c.assembly.upper_level_end
    /\ windows' = c.assembly.windows
    /\ failure' = c.assembly.failure
    /\ origin' = o
    /\ call' = NoCall
    /\ ret' = IF c.assembly.failure = NoFailure THEN NoRet ELSE Panicked
    /\ reads' = {}
    /\ hashed' = c.leaves_hashed
    /\ UNCHANGED <<calls, existing_tree>>

Build ==
    /\ phase = "none"
    /\ \E values \in ValueInputs :
        Construct(build(values), Origin("build", values, <<>>))

BuildWithHasher ==
    /\ phase = "none"
    /\ \E values \in ValueInputs, h \in Hashers :
        Construct(build_with_hasher(values, h), Origin("build_with_hasher", values, <<>>))

BuildFromLeaves ==
    /\ phase = "none"
    /\ \E given \in LeafInputs :
        Construct(build_from_leaves(given), Origin("build_from_leaves", <<>>, given))

BuildFromLeavesWithHasher ==
    /\ phase = "none"
    /\ \E given \in LeafInputs, h \in Hashers :
        Construct(build_from_leaves_with_hasher(given, h),
                  Origin("build_from_leaves_with_hasher", <<>>, given))

Assembled(a) ==
    /\ hasher' = a.hasher
    /\ nodes' = a.nodes
    /\ parents' = a.parents
    /\ upper_level_start' = a.upper_level_start
    /\ upper_level_end' = a.upper_level_end
    /\ windows' = a.windows
    /\ failure' = a.failure
    /\ UNCHANGED <<count_internal_nodes, count_leaves, origin, call, reads, hashed,
                   calls, existing_tree>>

\* one iteration of `while parents.len() > 1`
AssembleStep ==
    /\ phase = "assembling"
    /\ Len(parents) > 1
    /\ LET a == build_internal_nodes_step(CurrentAssembly)
       IN /\ Assembled(a)
          /\ phase' = IF a.failure = NoFailure THEN "assembling" ELSE "panicked"
          /\ ret' = IF a.failure = NoFailure THEN NoRet ELSE Panicked

\* the loop exit, nodes[0] = parents.remove(0), and the MerkleTree returned
AssembleFinish ==
    /\ phase = "assembling"
    /\ ~(Len(parents) > 1)
    /\ LET a == build_internal_nodes_finish(CurrentAssembly)
       IN /\ Assembled(a)
          /\ phase' = IF a.failure = NoFailure THEN "built" ELSE "panicked"
          /\ ret' = IF a.failure = NoFailure
                    THEN Ret("tree", FALSE, <<>>, <<>>) ELSE Panicked

\* Calls are made on the first tree, at most MaxCalls of them; a second tree
\* is built only to be compared with the one kept.
Accessed(c, r, rd) ==
    /\ calls < MaxCalls
    /\ calls' = calls + 1
    /\ call' = c
    /\ ret' = r
    /\ reads' = rd
    /\ hashed' = 0
    /\ UNCHANGED <<phase, hasher, nodes, count_internal_nodes, count_leaves, parents,
                   upper_level_start, upper_level_end, windows, failure, origin,
                   existing_tree>>

RootHash ==
    /\ phase = "built"
    /\ ~existing_tree.present
    /\ Accessed(Call("root_hash", 0, <<>>), Ret("hash", FALSE, root_hash(Self), <<>>), {0})

RootHashStr ==
    /\ phase = "built"
    /\ ~existing_tree.present
    /\ Accessed(Call("root_hash_str", 0, <<>>), Ret("hex", FALSE, root_hash_str(Self), <<>>), {0})

Leaves ==
    /\ phase = "built"
    /\ ~existing_tree.present
    /\ Accessed(Call("leaves", 0, <<>>), Ret("leaves", FALSE, <<>>, leaves(Self)),
             count_internal_nodes..(Len(nodes) - 1))

Verify ==
    /\ phase = "built"
    /\ ~existing_tree.present
    /\ calls < MaxCalls
    /\ calls' = calls + 1
    /\ \E position \in 0..(count_leaves + 1), value \in VerifyValues :
        LET v == verify(Self, position, value)
        IN /\ call' = Call("verify", position, value)
           /\ hasher' = v.self.hasher
           /\ nodes' = v.self.nodes
           /\ count_internal_nodes' = v.self.count_internal_nodes
           /\ count_leaves' = v.self.count_leaves
           /\ failure' = v.failure
           /\ phase' = IF v.failure = NoFailure THEN "built" ELSE "panicked"
           /\ ret' = IF v.failure = NoFailure
                     THEN Ret("bool", v.value, <<>>, <<>>) ELSE Panicked
           /\ reads' = v.reads
           /\ hashed' = v.hashed
           /\ UNCHANGED <<parents, upper_level_start, upper_level_end, windows, origin,
                          existing_tree>>

\* the caller keeps the tree just built (let existing_tree = ...) and goes on
\* to build another one
KeepTree ==
    /\ phase = "built"
    /\ calls = 0
    /\ ~existing_tree.present
    /\ existing_tree' = [present |-> TRUE, self |-> Self, origin |-> origin]
    /\ phase' = "none"
    /\ hasher' = DefaultHasher
    /\ nodes' = <<>>
    /\ count_internal_nodes' = 0
    /\ count_leaves' = 0
    /\ parents' = <<>>
    /\ upper_level_start' = 0
    /\ upper_level_end' = 0
    /\ windows' = <<>>
    /\ failure' = NoFailure
    /\ origin' = NoOrigin
    /\ call' = NoCall
    /\ ret' = NoRet
    /\ reads' = {}
    /\ hashed' = 0
    /\ calls' = 0

Next ==
    \/ Build
    \/ BuildWithHasher
    \/ BuildFromLeaves
    \/ BuildFromLeavesWithHasher
    \/ AssembleStep
    \/ AssembleFinish
    \/ RootHash
    \/ RootHashStr
    \/ Leaves
    \/ Verify
    \/ KeepTree

Spec == Init /\ [][Next]_vars

\* The construction calls alone.  Construction is sequential code: once
\* entered, the loop of build_internal_nodes and the statements after it run
\* to completion.
ConstructNext ==
    \/ Build
    \/ BuildWithHasher
    \/ BuildFromLeaves
    \/ BuildFromLeavesWithHasher
    \/ AssembleStep
    \/ AssembleFinish

FairSpec ==
    Init /\ [][ConstructNext]_vars /\ WF_vars(AssembleStep) /\ WF_vars(AssembleFinish)

\* ----------------------------------------------------------------- claims
FromValues == origin.op \in {"build", "build_with_hasher"}
FromLeaves == origin.op \in {"build_from_leaves", "build_from_leaves_with_hasher"}
InputCount == IF FromValues THEN Len(origin.values) ELSE Len(origin.leaves)

\* the digests the scheme prescribes: H(0x00 || value) and H(0x01 || l || r)
LeafDigest(value) == <<(<<0 - 1, <<Byte(0)>> \o value>>)>>
InternalDigest(l, r) == <<(<<0 - 1, <<Byte(1)>> \o l \o r>>)>>

WindowStart(k) == windows[k][1]
WindowEnd(k) == windows[k][2]
WindowLen(k) == WindowEnd(k) - WindowStart(k)
LowestStart == WindowStart(Len(windows))

RECURSIVE IsPowerOfTwo(_)
IsPowerOfTwo(n) == n = 1 \/ (n > 1 /\ n % 2 = 0 /\ IsPowerOfTwo(n \div 2))

\* C1: a construction from n > 1 values never fails: no window of the node
\* array is written outside [0, count_internal_nodes + n), the level start
\* never goes below 0, and the tree returned has n leaves.
C1_BuildSucceeds ==
    (FromValues /\ Len(origin.values) > 1) =>
        /\ failure \notin {IndexPanic, InsufficientLeaves}
        /\ upper_level_start >= 0
        /\ Len(nodes) = count_internal_nodes + Len(origin.values)
        /\ \A k \in 1..Len(windows) :
              0 <= WindowStart(k) /\ WindowEnd(k) <= Len(nodes)
        /\ phase = "built" =>
              /\ count_leaves = Len(origin.values)
              /\ Len(leaves(Self)) = Len(origin.values)

C1_Witness ==
    /\ phase = "built"
    /\ FromValues
    /\ Len(origin.values) = 5
    /\ Len(windows) = 3
    /\ LowestStart = 0

C3_VerifyMatchesLeaf ==
    /\ (FromValues /\ phase = "built") =>
          \A p \in 0..(Len(origin.values) - 1) :
              At(nodes, count_internal_nodes + p) = LeafDigest(At(origin.values, p))
    /\ (FromValues /\ call.op = "verify" /\ call.position < Len(origin.values)) =>
          /\ ret.kind = "bool"
          /\ ret.flag = (LeafDigest(call.value) = LeafDigest(At(origin.values, call.position)))
          /\ (call.value = At(origin.values, call.position) => ret.flag)

C3_Witness ==
    /\ FromValues
    /\ calls = 2
    /\ call.op = "verify"
    /\ call.position = Len(origin.values) - 1
    /\ ret.kind = "bool"
    /\ ret.flag
    /\ hashed = 1

\* C4: a tree built from the leaves() of a kept tree has the kept tree's root
\* hash and the kept tree's leaf sequence.
C4_RoundTrip ==
    (/\ phase = "built"
     /\ FromLeaves
     /\ existing_tree.present
     /\ origin.leaves = leaves(existing_tree.self)) =>
        /\ At(nodes, 0) = At(existing_tree.self.nodes, 0)
        /\ root_hash_str(Self) = root_hash_str(existing_tree.self)
        /\ Len(leaves(Self)) = existing_tree.self.count_leaves
        /\ leaves(Self) = leaves(existing_tree.self)

C4_Witness ==
    /\ phase = "built"
    /\ origin.op = "build_from_leaves"
    /\ existing_tree.present
    /\ existing_tree.origin.op = "build"
    /\ Len(existing_tree.origin.values) = 3
    /\ origin.leaves = leaves(existing_tree.self)

Identical(values) == \A i, j \in 1..Len(values) : values[i] = values[j]

\* C5 as stated: for every n >= 3 identical values, slots 1 and 2 hold the
\* same hash.
C5_SlotsOneAndTwoEqual ==
    (phase = "built" /\ FromValues /\ Len(origin.values) >= 3 /\ Identical(origin.values)) =>
        At(nodes, 1) = At(nodes, 2)

\* C5 amended: for every n >= 3 identical values the two children of the root
\* are byte-equal; they are the two-element row in the slots right after the
\* lowest written window, s + 1 and s + 2, which are slots 1 and 2 when the
\* rows fill the internal region (s = 0), as they do for 3 <= n <= 8.
C5_RootChildrenEqual ==
    (phase = "built" /\ FromValues /\ Len(origin.values) >= 3 /\ Identical(origin.values)) =>
        LET s == LowestStart
        IN /\ At(nodes, s + 1) = At(nodes, s + 2)
           /\ At(nodes, s + 1) # <<>>
           /\ At(nodes, 0) = InternalDigest(At(nodes, s + 1), At(nodes, s + 2))
           /\ s = 0 => At(nodes, 1) = At(nodes, 2)
           /\ Len(origin.values) <= 8 => s = 0

C5_Witness ==
    /\ phase = "built"
    /\ FromValues
    /\ Len(origin.values) = 9
    /\ Identical(origin.values)
    /\ LowestStart = 2
    /\ At(nodes, 3) = At(nodes, 4)
    /\ At(nodes, 1) = <<>>

\* C6: two trees built from value sequences of the same length n > 1 that
\* differ in some position have different root hashes.
C6_RootSensitive ==
    (/\ phase = "built"
     /\ FromValues
     /\ existing_tree.present
     /\ existing_tree.origin.op \in {"build", "build_with_hasher"}
     /\ Len(origin.values) = Len(existing_tree.origin.values)
     /\ origin.values # existing_tree.origin.values) =>
        At(nodes, 0) # At(existing_tree.self.nodes, 0)

C6_Witness ==
    /\ phase = "built"
    /\ FromValues
    /\ existing_tree.present
    /\ existing_tree.origin.values = <<Block1, Block1, Block1>>
    /\ origin.values = <<Block1, Block1, Block2>>
    /\ At(nodes, 0) # At(existing_tree.self.nodes, 0)

\* C7: a call of verify, root_hash, root_hash_str or leaves on a built tree
\* leaves the node array, count_internal_nodes and count_leaves as they were,
\* and root_hash and leaves return what the array held before the call.
C7_TreeImmutable ==
    [][(phase = "built" /\ phase' \in {"built", "panicked"}) =>
          /\ nodes' = nodes
          /\ count_internal_nodes' = count_internal_nodes
          /\ count_leaves' = count_leaves
          /\ (call'.op = "root_hash" => ret'.bytes = At(nodes, 0))
          /\ (call'.op = "leaves" =>
                ret'.hashes = Slice(nodes, count_internal_nodes, Len(nodes)))]_vars

C7_Witness ==
    /\ phase = "built"
    /\ calls = 2
    /\ call.op = "verify"
    /\ ret.kind = "bool"
    /\ ~ret.flag
    /\ hasher # DefaultHasher

\* C8: verify with position >= count_leaves panics with PositionOutOfRange
\* before hashing the value and before reading any node.
C8_PositionOutOfRange ==
    (call.op = "verify" /\ call.position >= count_leaves) =>
        /\ phase = "panicked"
        /\ failure = PositionOutOfRange
        /\ ret.kind = "panic"
        /\ reads = {}
        /\ hashed = 0

C8_Witness ==
    /\ call.op = "verify"
    /\ call.position = count_leaves
    /\ failure = PositionOutOfRange
    /\ count_leaves = 3

\* C9: the first row is written to the slots ending at count_internal_nodes,
\* each later row to the slots right before the previous window, all inside
\* the internal region; once built, slot 0 holds the final one-element row,
\* the slots below the lowest window other than slot 0 are empty, every slot
\* from the lowest window on is written, and there is no slack when n is a
\* power of two.
C9_Placement ==
    (windows # <<>>) =>
        /\ WindowEnd(1) = count_internal_nodes
        /\ \A k \in 2..Len(windows) : WindowEnd(k) = WindowStart(k - 1)
        /\ \A k \in 1..Len(windows) :
              /\ 0 <= WindowStart(k)
              /\ WindowStart(k) < WindowEnd(k)
              /\ WindowEnd(k) <= count_internal_nodes
        /\ upper_level_start = LowestStart
        /\ phase = "built" =>
              /\ WindowLen(Len(windows)) = 1
              /\ At(nodes, 0) = At(nodes, LowestStart)
              /\ At(nodes, 0) # <<>>
              /\ \A i \in 1..(LowestStart - 1) : At(nodes, i) = <<>>
              /\ \A i \in LowestStart..(Len(nodes) - 1) : At(nodes, i) # <<>>
              /\ IsPowerOfTwo(count_leaves) => LowestStart = 0

C9_Witness ==
    /\ phase = "built"
    /\ count_leaves = 9
    /\ windows = <<(<<9, 15>>), (<<5, 9>>), (<<3, 5>>), (<<2, 3>>)>>
    /\ At(nodes, 1) = <<>>
    /\ At(nodes, 0) = At(nodes, 2)

PaddedHalf(n) ==
    LET c == (n + 1) \div 2
    IN IF c > 1 /\ c % 2 = 1 THEN c + 1 ELSE c

RowLengths ==
    \A k \in 1..Len(windows) :
        LET n == IF k = 1 THEN Len(nodes) - count_internal_nodes ELSE WindowLen(k - 1)
        IN /\ WindowLen(k) = PaddedHalf(n)
           /\ (WindowLen(k) = 1 \/ WindowLen(k) % 2 = 0)
           /\ (n > 1 => WindowLen(k) < n)

\* C10: every row build_upper_level returns has ceil(N/2) hashes plus one
\* clone when that count is odd and above 1, so it has length 1 or an even
\* length and is shorter than its input; a construction that has entered
\* build_internal_nodes therefore ends with a built tree.
C10_Terminates ==
    /\ [](RowLengths /\ (phase = "assembling" => Len(parents) = WindowLen(Len(windows))))
    /\ (phase = "assembling") ~> (phase = "built")

C10_Witness ==
    /\ phase = "built"
    /\ count_leaves = 10
    /\ Len(windows) = 4
    /\ WindowLen(1) = 6

====
